---- MODULE Spec2Model ----
(***************************************************************************)
(* A model of physics-driven-ml:                                           *)
(*   - dataset_processing/generate_data.py: random_field and generate_data *)
(*     (the sampling, forward solve, noise, split and checkpoint phases),  *)
(*     together with the command-line entry point;                         *)
(*   - tests/test_pytorch_coupling.py: the life cycle of the fixtures      *)
(*     handle_annotation and handle_taping around the module's tests.      *)
(*                                                                         *)
(* Floating-point data is abstracted to integers: a function's coefficient *)
(* vector is one integer, the generator of numpy is a small congruential   *)
(* generator, a PDE solve is an injective function of the coefficient      *)
(* field.  Function objects live in a heap and lists hold references, so   *)
(* that two lists holding the same object are distinguishable from two     *)
(* lists holding equal copies.                                             *)
(***************************************************************************)
EXTENDS Integers, Sequences, FiniteSets, TLC

\* ------------------------------------------------------------------ bounds
MaxTrain == 2
MaxNtest == 2
MaxNoise == 1
MaxSeed == 1
MaxN == 2
MaxModes == 2
MaxTests == 3

\* ------------------------------------------------- defaults of the source
DefaultModes == 15
DefaultSeed == 1234
\* σ = 1.4, in tenths
DefaultSigmaTenths == 14

VARIABLES
    \* generate_data
    pc,         \* position in generate_data
    entry,      \* "cli": run as a script; "direct": generate_data called by other code
    args,       \* the arguments of the call
    gmesh,      \* the module-level name `mesh` that lines 86 and 95 read
    heap,       \* the coefficient data of every Function object, by reference
    ks, us, us_obs,   \* the lists of the call (references into heap)
    split,      \* ks_train, k_test, us_train, u_test, us_obs_train, u_obs_test
    files,      \* the two checkpoint files
    files0,     \* the files as they were when the call started
    err,        \* the exception that ended the call, or "none"
    log,        \* what the call has done so far (history, not program state)
    \* random_field called on its own
    rfCarried,  \* the generator state the previous invocation ended in
    rfCalls,    \* the invocations made so far, each with its arguments and result
    \* the test module
    tpc,        \* position in the test session
    annotate,   \* pyadjoint's global annotation flag
    annotate0,  \* the flag before the module started
    tape,       \* the working tape: entries tagged with the test that recorded them
    cur,        \* the number of the current test (0: none started yet)
    item,       \* the current test item
    outcome,    \* the outcome of the current test
    left,       \* tests still to run
    recorded    \* every entry ever put on the tape (history, not program state)

genVars == <<pc, entry, args, gmesh, heap, ks, us, us_obs, split, files, files0, err, log>>
rfVars == <<rfCarried, rfCalls>>
testVars == <<tpc, annotate, annotate0, tape, cur, item, outcome, left, recorded>>
vars == <<genVars, rfVars, testVars>>

\* ------------------------------------------------------------ random_field

\* numpy's Generator, abstracted: a full-period congruential generator.
DefaultRng(seed) == seed % 16

RngNext(s) == (5 * s + 3) % 16

\* One call rng.standard_normal(2) or rng.normal(0, σ, 2): two draws.
DrawTwo(s) == [a |-> RngNext(s), b |-> RngNext(RngNext(s)), rng |-> RngNext(RngNext(s))]

\* One round of the inner loop: the amplitudes first, then the frequencies
\* (scaled by σ); r grows by the mode's term.
ModeRound(st, sigma) ==
    LET amp == DrawTwo(st.rng)
        frq == DrawTwo(amp.rng)
        k1 == sigma * frq.a
        k2 == sigma * frq.b
    IN [rng |-> frq.rng,
        r |-> (st.r + amp.a + 2 * amp.b + 3 * k1 + 5 * k2) % 32,
        order |-> st.order \o <<"standard_normal", "standard_normal", "normal", "normal">>]

RECURSIVE ModeRounds(_, _, _)
\* (nxt is evaluated before the recursion: the test on it is always true and only
\* keeps the evaluation from nesting one unevaluated round inside the next)
ModeRounds(st, m, sigma) ==
    IF m = 0 THEN st
    ELSE LET nxt == ModeRound(st, sigma)
         IN IF nxt.rng >= 0 THEN ModeRounds(nxt, m - 1, sigma) ELSE nxt

\* interpolate(sqrt(1 / m) * r, V): the field lives on V and is scaled by m.
Interpolate(r, m, V) == [space |-> V, data |-> (r + m) % 32]

\* The outer loop: N fields, each from m rounds starting at r = 0.
RECURSIVE FieldLoop(_, _, _, _, _)
FieldLoop(st, N, m, sigma, V) ==
    IF N = 0 THEN st
    ELSE LET one == ModeRounds([rng |-> st.rng, r |-> 0, order |-> st.order], m, sigma)
             nxt == [rng |-> one.rng,
                     order |-> one.order,
                     fields |-> Append(st.fields, Interpolate(one.r, m, V))]
         IN IF nxt.rng >= 0 THEN FieldLoop(nxt, N - 1, m, sigma, V) ELSE nxt

\* The generator random_field draws from: a fresh one made from the seed.
\* `carried` is the state the previous invocation ended in.
RandomFieldRngCarried(seed, carried) == carried

RandomFieldRng(seed, carried) == DefaultRng(seed)

random_field(V, N, m, sigma, seed, carried) ==
    FieldLoop([rng |-> RandomFieldRng(seed, carried), order |-> <<>>, fields |-> <<>>],
              N, m, sigma, V)

\* ----------------------------------------------------------- generate_data

Spaces == {"V1", "V2"}
Meshes == {"mesh1", "mesh2"}

\* V.ufl_domain(): the mesh a function space is defined on.
MeshOf(V) == IF V = "V1" THEN "mesh1" ELSE "mesh2"

\* What the name `mesh` can be bound to in the module when generate_data is
\* called by other code: nothing that is a mesh (the name is unbound, or bound
\* by the star import to something else), or whatever mesh was put there.
GlobalMeshValues == Meshes \cup {"not_a_mesh"}

ForwardChoices == {"poisson", "callable", "unknown_pde"}
NoiseChoices == {"normal", "callable", "unknown_noise"}
Seeds == (0..MaxSeed) \cup {DefaultSeed}
ScaleNoise == {1, 2}

Absent == [exists |-> FALSE, attr |-> "none", mesh |-> "none", funcs |-> {}]
OldFile == [exists |-> TRUE, attr |-> "old", mesh |-> "old", funcs |-> {}]

NoSplit == [ks_train |-> <<>>, k_test |-> 0, us_train |-> <<>>, u_test |-> 0,
            us_obs_train |-> <<>>, u_obs_test |-> 0]
NoLog == [sampled |-> FALSE, solves |-> 0, forwardCalls |-> 0, noised |-> 0,
          noiseCalls |-> 0, clean |-> <<>>, draws |-> <<>>]

\* The command line (lines 101-127): ntest and seed keep their defaults, forward
\* and noise are strings, and `mesh` is the mesh V is built on.
CliArgs ==
    {a \in [V : Spaces, ntrain : 0..MaxTrain, ntest : {1},
            forward : {"poisson", "unknown_pde"}, noise : {"normal", "unknown_noise"},
            scale_noise : ScaleNoise, seed : {DefaultSeed}] : TRUE}

DirectArgs ==
    [V : Spaces, ntrain : 0..MaxTrain, ntest : 0..MaxNtest,
     forward : ForwardChoices, noise : NoiseChoices,
     scale_noise : ScaleNoise, seed : Seeds]

\* line 35
NtestRejectedBelowOne(ntest) == ntest < 1

NtestRejected(ntest) == ntest # 1

\* line 39: N = ntrain + ntest
NumFieldsTrainOnly(ntrain, ntest) == ntrain

NumFields(ntrain, ntest) == ntrain + ntest

\* lines 43, 55, 57: the dispatch on `forward`
ForwardKindFallback(forward) ==
    IF forward = "callable" THEN "callable" ELSE "poisson"

ForwardKind(forward) ==
    IF forward = "poisson" THEN "poisson"
    ELSE IF forward = "callable" THEN "callable"
    ELSE "reject"

\* lines 63, 69, 71: the dispatch on `noise`
NoiseKindFallback(noise) ==
    IF noise = "callable" THEN "callable" ELSE "normal"

NoiseKind(noise) ==
    IF noise = "normal" THEN "normal"
    ELSE IF noise = "callable" THEN "callable"
    ELSE "reject"

\* The solution of the Poisson problem with coefficient exp(k): one-to-one in k.
Solve(k) == 3 * k + 1

\* References of n objects allocated after a heap of size h.
NewRefs(h, n) == [i \in 1..n |-> h + i]

\* u.dat.data[:] += noise, for each u of `refs` in turn, in place.
RECURSIVE AddInPlace(_, _, _, _)
AddInPlace(h, refs, noises, i) ==
    IF i > Len(refs) THEN h
    ELSE AddInPlace([h EXCEPT ![refs[i]] = @ + noises[i]], refs, noises, i + 1)

\* `*xs_train, x_test = xs`
TrainPart(xs) == SubSeq(xs, 1, Len(xs) - 1)

TestPart(xs) == xs[Len(xs)]

Min(a, b) == IF a < b THEN a ELSE b

\* enumerate(zip(ks_train, us_train, us_obs_train)): indices from 0, as many as
\* the shortest list has.
ZipLen(a, b, c) == Min(Len(a), Min(Len(b), Len(c)))

EnumerateIndexFromOne(i) == i

EnumerateIndex(i) == i - 1

\* The with-block of lines 84-90: the file is opened for writing (and so
\* emptied), the count is stored, then the mesh, then the functions.
TrainFile(h, sp, ntrain, m) ==
    IF m \notin Meshes
    THEN [file |-> [exists |-> TRUE, attr |-> ntrain, mesh |-> "none", funcs |-> {}],
          ok |-> FALSE]
    ELSE [file |-> [exists |-> TRUE, attr |-> ntrain, mesh |-> m,
                    funcs |-> UNION {{<<"k", EnumerateIndex(i), h[sp.ks_train[i]]>>,
                                      <<"u", EnumerateIndex(i), h[sp.us_train[i]]>>,
                                      <<"u_obs", EnumerateIndex(i), h[sp.us_obs_train[i]]>>}
                                     : i \in 1..ZipLen(sp.ks_train, sp.us_train, sp.us_obs_train)}],
          ok |-> TRUE]

\* The with-block of lines 93-98.
TestFile(h, sp, ntest, m) ==
    IF m \notin Meshes
    THEN [file |-> [exists |-> TRUE, attr |-> ntest, mesh |-> "none", funcs |-> {}],
          ok |-> FALSE]
    ELSE [file |-> [exists |-> TRUE, attr |-> ntest, mesh |-> m,
                    funcs |-> {<<"k", 0, h[sp.k_test]>>,
                               <<"u", 0, h[sp.u_test]>>,
                               <<"u_obs", 0, h[sp.u_obs_test]>>}],
          ok |-> TRUE]

GenInit ==
    /\ pc = "start"
    /\ \/ /\ entry = "cli"
          /\ args \in CliArgs
          /\ gmesh = MeshOf(args.V)
       \/ /\ entry = "direct"
          /\ args \in DirectArgs
          /\ gmesh \in GlobalMeshValues
    /\ heap = <<>>
    /\ ks = <<>> /\ us = <<>> /\ us_obs = <<>>
    /\ split = NoSplit
    /\ files0 \in {[train |-> Absent, test |-> Absent], [train |-> OldFile, test |-> OldFile]}
    /\ files = files0
    /\ err = "none"
    /\ log = NoLog

GenIdle ==
    /\ pc = "idle" /\ entry = "none" /\ args = <<>> /\ gmesh = "none"
    /\ heap = <<>> /\ ks = <<>> /\ us = <<>> /\ us_obs = <<>> /\ split = NoSplit
    /\ files0 = [train |-> Absent, test |-> Absent] /\ files = files0
    /\ err = "none" /\ log = NoLog

Raise(e) ==
    /\ pc' = "error"
    /\ err' = e

\* lines 35-36
CheckNtest ==
    /\ pc = "start"
    /\ IF NtestRejected(args.ntest)
       THEN Raise("ntest_not_implemented")
       ELSE pc' = "fields" /\ err' = err
    /\ UNCHANGED <<entry, args, gmesh, heap, ks, us, us_obs, split, files, files0, log>>
    /\ UNCHANGED <<rfVars, testVars>>

\* line 39
SampleFields ==
    /\ pc = "fields"
    /\ LET res == random_field(args.V, NumFields(args.ntrain, args.ntest), DefaultModes,
                               DefaultSigmaTenths, args.seed, rfCarried)
           n == Len(res.fields)
       IN /\ heap' = heap \o [i \in 1..n |-> res.fields[i].data]
          /\ ks' = NewRefs(Len(heap), n)
    /\ log' = [log EXCEPT !.sampled = TRUE]
    /\ pc' = "forward"
    /\ UNCHANGED <<entry, args, gmesh, us, us_obs, split, files, files0, err>>
    /\ UNCHANGED <<rfVars, testVars>>

\* lines 43-54: one fresh Function per field, solved for
ForwardPoisson ==
    /\ pc = "forward"
    /\ ForwardKind(args.forward) = "poisson"
    /\ LET n == Len(ks)
           sol == [i \in 1..n |-> Solve(heap[ks[i]])]
       IN /\ heap' = heap \o sol
          /\ us' = NewRefs(Len(heap), n)
          /\ log' = [log EXCEPT !.solves = @ + n, !.clean = sol]
    /\ pc' = "noise"
    /\ UNCHANGED <<entry, args, gmesh, ks, us_obs, split, files, files0, err>>
    /\ UNCHANGED <<rfVars, testVars>>

\* lines 55-56: us = forward(ks, V); the callable is the caller's, and returns
\* a list of its own making
ForwardCallable ==
    /\ pc = "forward"
    /\ ForwardKind(args.forward) = "callable"
    /\ \E n \in 0..(Len(ks) + 1), b \in 0..1 :
         LET sol == [i \in 1..n |-> b]
         IN /\ heap' = heap \o sol
            /\ us' = NewRefs(Len(heap), n)
            /\ log' = [log EXCEPT !.forwardCalls = @ + 1, !.clean = sol]
    /\ pc' = "noise"
    /\ UNCHANGED <<entry, args, gmesh, ks, us_obs, split, files, files0, err>>
    /\ UNCHANGED <<rfVars, testVars>>

\* lines 57-58
ForwardReject ==
    /\ pc = "forward"
    /\ ForwardKind(args.forward) = "reject"
    /\ Raise("forward_not_implemented")
    /\ UNCHANGED <<entry, args, gmesh, heap, ks, us, us_obs, split, files, files0, log>>
    /\ UNCHANGED <<rfVars, testVars>>

\* lines 63-68: the noise is added to u itself, and u itself is appended
NoiseNormal ==
    /\ pc = "noise"
    /\ NoiseKind(args.noise) = "normal"
    /\ \E rand \in [1..Len(us) -> 0..MaxNoise] :
         LET noises == [i \in 1..Len(us) |-> args.scale_noise * rand[i]]
         IN /\ heap' = AddInPlace(heap, us, noises, 1)
            /\ log' = [log EXCEPT !.noised = @ + Len(us), !.draws = noises]
    /\ us_obs' = us
    /\ pc' = "split"
    /\ UNCHANGED <<entry, args, gmesh, ks, us, split, files, files0, err>>
    /\ UNCHANGED <<rfVars, testVars>>

\* lines 69-70: us_obs = noise(us)
NoiseCallable ==
    /\ pc = "noise"
    /\ NoiseKind(args.noise) = "callable"
    /\ \E n \in 0..(Len(us) + 1), b \in 0..1 :
         /\ heap' = heap \o [i \in 1..n |-> b]
         /\ us_obs' = NewRefs(Len(heap), n)
    /\ log' = [log EXCEPT !.noiseCalls = @ + 1]
    /\ pc' = "split"
    /\ UNCHANGED <<entry, args, gmesh, ks, us, split, files, files0, err>>
    /\ UNCHANGED <<rfVars, testVars>>

\* lines 71-72
NoiseReject ==
    /\ pc = "noise"
    /\ NoiseKind(args.noise) = "reject"
    /\ Raise("noise_not_implemented")
    /\ UNCHANGED <<entry, args, gmesh, heap, ks, us, us_obs, split, files, files0, log>>
    /\ UNCHANGED <<rfVars, testVars>>

\* lines 77-79: unpacking an empty list raises ValueError
SplitTrainTest ==
    /\ pc = "split"
    /\ IF Len(ks) = 0 \/ Len(us) = 0 \/ Len(us_obs) = 0
       THEN Raise("unpack_value_error") /\ split' = split
       ELSE /\ split' = [ks_train |-> TrainPart(ks), k_test |-> TestPart(ks),
                         us_train |-> TrainPart(us), u_test |-> TestPart(us),
                         us_obs_train |-> TrainPart(us_obs), u_obs_test |-> TestPart(us_obs)]
            /\ pc' = "save_train"
            /\ err' = err
    /\ UNCHANGED <<entry, args, gmesh, heap, ks, us, us_obs, files, files0, log>>
    /\ UNCHANGED <<rfVars, testVars>>

\* lines 84-90
SaveTrain ==
    /\ pc = "save_train"
    /\ LET w == TrainFile(heap, split, args.ntrain, gmesh)
       IN /\ files' = [files EXCEPT !.train = w.file]
          /\ IF w.ok THEN pc' = "save_test" /\ err' = err ELSE Raise("save_mesh_failed")
    /\ UNCHANGED <<entry, args, gmesh, heap, ks, us, us_obs, split, files0, log>>
    /\ UNCHANGED <<rfVars, testVars>>

\* lines 93-98
SaveTest ==
    /\ pc = "save_test"
    /\ LET w == TestFile(heap, split, args.ntest, gmesh)
       IN /\ files' = [files EXCEPT !.test = w.file]
          /\ IF w.ok THEN pc' = "done" /\ err' = err ELSE Raise("save_mesh_failed")
    /\ UNCHANGED <<entry, args, gmesh, heap, ks, us, us_obs, split, files0, log>>
    /\ UNCHANGED <<rfVars, testVars>>

RfIdle == rfCarried = 0 /\ rfCalls = <<>>

TestIdle ==
    /\ tpc = "idle" /\ annotate = FALSE /\ annotate0 = FALSE /\ tape = {}
    /\ cur = 0 /\ item = "none" /\ outcome = "none" /\ left = 0 /\ recorded = {}

GenNext ==
    \/ CheckNtest
    \/ SampleFields
    \/ ForwardPoisson
    \/ ForwardCallable
    \/ ForwardReject
    \/ NoiseNormal
    \/ NoiseCallable
    \/ NoiseReject
    \/ SplitTrainTest
    \/ SaveTrain
    \/ SaveTest

Init == GenInit /\ RfIdle /\ TestIdle

Next == GenNext

Spec == Init /\ [][Next]_vars

\* ------------------------------------------- random_field called on its own

Sigmas == {10, 14}

RfArgs == [V : Spaces, N : 0..MaxN, m : 1..MaxModes, sigma : Sigmas, seed : 0..MaxSeed]

RfInit ==
    /\ rfCarried \in 0..MaxSeed
    /\ rfCalls = <<>>

\* One invocation of random_field (lines 14-27), from the first line to the
\* return.  Two invocations are followed, whatever their arguments.
RandomFieldCall ==
    /\ Len(rfCalls) < 2
    /\ \E a \in RfArgs :
         LET res == random_field(a.V, a.N, a.m, a.sigma, a.seed, rfCarried)
         IN /\ rfCalls' = Append(rfCalls, [args |-> a, fields |-> res.fields, order |-> res.order])
            /\ rfCarried' = res.rng
    /\ UNCHANGED <<genVars, testVars>>

InitRandomField == GenIdle /\ RfInit /\ TestIdle

NextRandomField == RandomFieldCall

SpecRandomField == InitRandomField /\ [][NextRandomField]_vars

\* ---------------------------------------------------------- the test module

Items == {"test_pytorch_loss_backward", "test_firedrake_loss_backward",
          "test_taylor_torch_operator[poisson_residual]",
          "test_taylor_torch_operator[solve_poisson]"}

\* The tests that request f_exact, directly (line 83) or through
\* firedrake_operator (line 74).
UsesFExact(it) == it # "test_firedrake_loss_backward"

Outcomes == {"passed", "failed", "exception"}

\* line 26
NeedsContinue(annotating) == ~annotating

\* lines 31-32
PauseAtEndNever(annotating) == FALSE

PauseAtEnd(annotating) == annotating

\* line 20: tape.clear_tape()
ClearTapeKeeps(t) == t

ClearTape(t) == {}

\* An operation of firedrake puts an entry on the tape only while annotation is on.
Record(t, e, annotating) == IF annotating THEN t \cup {e} ELSE t

TestInit ==
    /\ tpc = "module_setup"
    /\ annotate0 \in BOOLEAN
    /\ annotate = annotate0
    /\ tape \in {{}, {<<0, "earlier">>}}
    /\ recorded = {}
    /\ cur = 0
    /\ item = "none"
    /\ outcome = "none"
    /\ left \in 1..MaxTests

\* handle_annotation up to its yield (lines 25-28), before the module's first test
ModuleSetup ==
    /\ tpc = "module_setup"
    /\ annotate' = IF NeedsContinue(annotate) THEN TRUE ELSE annotate
    /\ tpc' = "setup"
    /\ UNCHANGED <<annotate0, tape, cur, item, outcome, left, recorded>>
    /\ UNCHANGED <<genVars, rfVars>>

\* The set-up of one test: handle_taping up to its yield (line 18), then the
\* fixtures the test requests; f_exact (lines 46-49) interpolates, or raises.
TestSetup ==
    /\ tpc = "setup"
    /\ left > 0
    /\ \E it \in Items, raised \in BOOLEAN :
         /\ item' = it
         /\ cur' = cur + 1
         /\ IF UsesFExact(it)
            THEN IF raised
                 THEN /\ tape' = tape /\ recorded' = recorded
                      /\ outcome' = "exception" /\ tpc' = "teardown"
                 ELSE /\ tape' = Record(tape, <<cur + 1, "f_exact">>, annotate)
                      /\ recorded' = Record(recorded, <<cur + 1, "f_exact">>, annotate)
                      /\ outcome' = "none" /\ tpc' = "call"
            ELSE /\ raised = FALSE
                 /\ tape' = tape /\ recorded' = recorded
                 /\ outcome' = "none" /\ tpc' = "call"
    /\ UNCHANGED <<annotate, annotate0, left>>
    /\ UNCHANGED <<genVars, rfVars>>

\* The body of a test (lines 83-131, 135-184, 188-201): it may put entries on
\* the tape, and passes, fails an assertion or raises.
TestCall ==
    /\ tpc = "call"
    /\ \E records \in BOOLEAN, o \in Outcomes :
         /\ tape' = IF records THEN Record(tape, <<cur, "body">>, annotate) ELSE tape
         /\ recorded' = IF records THEN Record(recorded, <<cur, "body">>, annotate) ELSE recorded
         /\ outcome' = o
    /\ tpc' = "teardown"
    /\ UNCHANGED <<annotate, annotate0, cur, item, left>>
    /\ UNCHANGED <<genVars, rfVars>>

\* handle_taping after its yield (lines 19-20): run after every test that was
\* set up, whatever its outcome
TestTeardown ==
    /\ tpc = "teardown"
    /\ tape' = ClearTape(tape)
    /\ left' = left - 1
    /\ tpc' = IF left = 1 THEN "module_teardown" ELSE "setup"
    /\ UNCHANGED <<annotate, annotate0, cur, item, outcome, recorded>>
    /\ UNCHANGED <<genVars, rfVars>>

\* handle_annotation after its yield (lines 29-33), after the module's last test
ModuleTeardown ==
    /\ tpc = "module_teardown"
    /\ annotate' = IF PauseAtEnd(annotate) THEN FALSE ELSE annotate
    /\ tpc' = "finished"
    /\ UNCHANGED <<annotate0, tape, cur, item, outcome, left, recorded>>
    /\ UNCHANGED <<genVars, rfVars>>

TestNext ==
    \/ ModuleSetup
    \/ TestSetup
    \/ TestCall
    \/ TestTeardown
    \/ ModuleTeardown

InitTests == GenIdle /\ RfIdle /\ TestInit

SpecTests == InitTests /\ [][TestNext]_vars

\* ------------------------------------------------------------------ claims

NothingSolved == log.solves = 0 /\ log.forwardCalls = 0
NothingNoised == log.noised = 0 /\ log.noiseCalls = 0
FilesUntouched == files = files0

\* The split of lines 77-79 has been made.
SplitMade ==
    \/ pc \in {"save_train", "save_test", "done"}
    \/ pc = "error" /\ err = "save_mesh_failed"

\* The values saved in file f under a name and an index.
Saved(f, name, idx) == {t[3] : t \in {x \in f.funcs : x[1] = name /\ x[2] = idx}}

\* Position i of the lists is written: to the test file when it is the last of
\* us, to the train file (index i - 1) when the zip of line 87 gets that far.
WrittenAt(i) ==
    IF i = Len(us) THEN files.test
    ELSE files.train

WrittenIdx(i) == IF i = Len(us) THEN 0 ELSE i - 1

WrittenPositions ==
    {i \in 1..Len(us) :
        i = Len(us) \/ i <= ZipLen(split.ks_train, split.us_train, split.us_obs_train)}

(* C1: with the default noise injector and a non-zero noise draw, the function
   saved as `u` is the solution as the forward solve produced it, and the one
   saved as `u_obs` is that solution plus the noise. *)
C1_CleanAndNoisySaved ==
    (pc = "done" /\ args.noise = "normal") =>
        \A i \in WrittenPositions :
            log.draws[i] # 0 =>
                /\ Saved(WrittenAt(i), "u", WrittenIdx(i)) = {log.clean[i]}
                /\ Saved(WrittenAt(i), "u_obs", WrittenIdx(i)) = {log.clean[i] + log.draws[i]}

AllButLast(train, xs) ==
    /\ Len(train) = Len(xs) - 1
    /\ \A i \in 1..Len(train) : train[i] = xs[i]

(* C2, as claimed: once the split is made there are ntrain + 1 fields, each of
   ks_train, us_train and us_obs_train has exactly ntrain elements and is all
   but the last of its list, and the test sample is the last. *)
C2_SplitSizes ==
    SplitMade =>
        /\ Len(ks) = args.ntrain + 1
        /\ Len(split.ks_train) = args.ntrain
        /\ Len(split.us_train) = args.ntrain
        /\ Len(split.us_obs_train) = args.ntrain
        /\ AllButLast(split.ks_train, ks) /\ split.k_test = ks[Len(ks)]
        /\ AllButLast(split.us_train, us) /\ split.u_test = us[Len(us)]
        /\ AllButLast(split.us_obs_train, us_obs) /\ split.u_obs_test = us_obs[Len(us_obs)]

(* C2, amended: once the split is made there are ntrain + 1 fields and ks_train
   has exactly ntrain of them; each training list is all but the last element
   of its list and each test element is the last; us_train (us_obs_train) has
   exactly ntrain elements whenever the forward (noise) operator returned one
   output per input, which the built-in operators always do. *)
C2_SplitSizesAmended ==
    SplitMade =>
        /\ Len(ks) = args.ntrain + 1
        /\ Len(split.ks_train) = args.ntrain
        /\ AllButLast(split.ks_train, ks) /\ split.k_test = ks[Len(ks)]
        /\ AllButLast(split.us_train, us) /\ split.u_test = us[Len(us)]
        /\ AllButLast(split.us_obs_train, us_obs) /\ split.u_obs_test = us_obs[Len(us_obs)]
        /\ (Len(us) = Len(ks) => Len(split.us_train) = args.ntrain)
        /\ (Len(us_obs) = Len(ks) => Len(split.us_obs_train) = args.ntrain)
        /\ (args.forward = "poisson" => Len(us) = Len(ks))
        /\ (args.noise = "normal" => Len(us_obs) = Len(us))

C2_Witness ==
    /\ pc = "done"
    /\ args.ntrain = 2
    /\ args.forward = "poisson" /\ args.noise = "normal"
    /\ Len(split.ks_train) = 2 /\ Len(split.us_train) = 2 /\ Len(split.us_obs_train) = 2

SavedIndices(f) == {t[2] : t \in f.funcs}

NamesAt(f, idx) == {t[1] : t \in {x \in f.funcs : x[2] = idx}}

ThreeFunctionsEach(f) ==
    \A idx \in SavedIndices(f) :
        /\ NamesAt(f, idx) = {"k", "u", "u_obs"}
        /\ Cardinality({x \in f.funcs : x[2] = idx}) = 3

(* C3, as claimed: in a run that completes, each file holds as many sample
   indices as its count attribute says, the indices are 0..count-1, and every
   index has exactly the functions k, u and u_obs. *)
C3_FilesMatchCount ==
    pc = "done" =>
        /\ files.train.attr = args.ntrain
        /\ SavedIndices(files.train) = 0..(args.ntrain - 1)
        /\ ThreeFunctionsEach(files.train)
        /\ files.test.attr = args.ntest
        /\ SavedIndices(files.test) = 0..(args.ntest - 1)
        /\ ThreeFunctionsEach(files.test)

(* C3, amended: in a run that completes, train_data.h5 declares ntrain and holds
   the indices 0..n-1, where n is the smallest of ntrain, len(us) - 1 and
   len(us_obs) - 1; n is ntrain whenever the forward and noise operators each
   returned at least ntrain + 1 outputs, as the built-in ones always do.
   test_data.h5 declares ntest = 1 and holds index 0 alone.  Every saved index
   has exactly the functions k, u and u_obs. *)
C3_FilesMatchCountAmended ==
    pc = "done" =>
        /\ files.train.attr = args.ntrain
        /\ SavedIndices(files.train) =
               0..(Min(args.ntrain, Min(Len(us) - 1, Len(us_obs) - 1)) - 1)
        /\ ((Len(us) >= args.ntrain + 1 /\ Len(us_obs) >= args.ntrain + 1)
               => SavedIndices(files.train) = 0..(args.ntrain - 1))
        /\ ((args.forward = "poisson" /\ args.noise = "normal")
               => SavedIndices(files.train) = 0..(args.ntrain - 1))
        /\ ThreeFunctionsEach(files.train)
        /\ files.test.attr = 1 /\ args.ntest = 1
        /\ SavedIndices(files.test) = {0}
        /\ ThreeFunctionsEach(files.test)

C3_Witness ==
    /\ pc = "done"
    /\ args.ntrain = 2
    /\ args.forward = "callable" /\ args.noise = "callable"
    /\ Len(us) = 3 /\ Len(us_obs) = 3
    /\ SavedIndices(files.train) = {0, 1}

(* C4: with ntest # 1 the call fails with the not-implemented error of line 36
   before any field is sampled, any PDE is solved, any noise is applied and
   any checkpoint file is opened. *)
C4_NtestRejectedFirst ==
    args.ntest # 1 =>
        /\ pc \in {"start", "error"}
        /\ (pc = "error" => err = "ntest_not_implemented")
        /\ ~log.sampled /\ ks = <<>>
        /\ NothingSolved /\ NothingNoised /\ FilesUntouched

C4_Witness ==
    /\ pc = "error" /\ err = "ntest_not_implemented"
    /\ args.ntest = 2
    /\ ~log.sampled /\ FilesUntouched

(* C5: with ntest = 1 and a forward argument that is neither 'poisson' nor a
   callable, the call fails with the not-implemented error of line 58 (which
   names the valid choices); no PDE is solved, no noise is applied and no
   checkpoint file is created or modified. *)
C5_UnknownForwardRejected ==
    (args.ntest = 1 /\ args.forward \notin {"poisson", "callable"}) =>
        /\ pc \in {"start", "fields", "forward", "error"}
        /\ (pc = "error" => err = "forward_not_implemented")
        /\ NothingSolved /\ NothingNoised /\ FilesUntouched

C5_Witness ==
    /\ pc = "error" /\ err = "forward_not_implemented"
    /\ args.ntest = 1 /\ args.forward = "unknown_pde"
    /\ log.sampled /\ NothingSolved /\ FilesUntouched

NotImplementedErrors ==
    {"ntest_not_implemented", "forward_not_implemented", "noise_not_implemented"}

(* C6, as claimed: with a noise argument that is neither 'normal' nor a
   callable, the call fails with a not-implemented error at once: no PDE solve
   is performed and no checkpoint file is created or modified. *)
C6_UnknownNoiseRejectedAtOnce ==
    args.noise \notin {"normal", "callable"} =>
        /\ pc \in {"start", "fields", "forward", "noise", "error"}
        /\ (pc = "error" => err \in NotImplementedErrors)
        /\ NothingSolved
        /\ FilesUntouched

(* C6, amended: with a noise argument that is neither 'normal' nor a callable,
   the call fails with a not-implemented error, no noise is applied and no
   checkpoint file is created or modified; the error is the one of line 72
   (naming the valid noise choices) exactly when ntest = 1 and forward is
   'poisson' or a callable, and it is raised only after the forward problem has
   been run for every field: ntrain + 1 PDE solves for 'poisson', one call of
   the callable otherwise. *)
C6_UnknownNoiseRejectedAfterSolve ==
    args.noise \notin {"normal", "callable"} =>
        /\ pc \in {"start", "fields", "forward", "noise", "error"}
        /\ (pc = "error" => err \in NotImplementedErrors)
        /\ (pc = "error" =>
              (err = "noise_not_implemented"
                  <=> (args.ntest = 1 /\ args.forward \in {"poisson", "callable"})))
        /\ ((pc = "error" /\ err = "noise_not_implemented") =>
              /\ (args.forward = "poisson" => log.solves = args.ntrain + 1)
              /\ (args.forward = "callable" => log.forwardCalls = 1))
        /\ NothingNoised
        /\ FilesUntouched

C6_Witness ==
    /\ pc = "error" /\ err = "noise_not_implemented"
    /\ args.noise = "unknown_noise" /\ args.forward = "poisson"
    /\ args.ntrain = 2 /\ log.solves = 3
    /\ NothingNoised /\ FilesUntouched

\* The order random_field draws in: per field, m rounds of two standard-normal
\* amplitudes followed by two normal frequencies.
FixedOrder(c) ==
    /\ Len(c.order) = 4 * c.args.N * c.args.m
    /\ \A p \in 1..Len(c.order) :
         c.order[p] = IF (p - 1) % 4 < 2 THEN "standard_normal" ELSE "normal"

(* C7: two separate invocations of random_field with the same arguments return
   the same sequence of N fields, each drawing in the same fixed order,
   whatever state an earlier invocation left behind. *)
C7_SameArgsSameFields ==
    /\ \A i \in 1..Len(rfCalls) :
         /\ Len(rfCalls[i].fields) = rfCalls[i].args.N
         /\ FixedOrder(rfCalls[i])
    /\ \A i, j \in 1..Len(rfCalls) :
         rfCalls[i].args = rfCalls[j].args =>
             /\ rfCalls[i].fields = rfCalls[j].fields
             /\ rfCalls[i].order = rfCalls[j].order

C7_Witness ==
    /\ Len(rfCalls) = 2
    /\ rfCalls[1].args = rfCalls[2].args
    /\ rfCalls[1].args.N = 2 /\ rfCalls[1].args.m = 1
    /\ rfCalls[1].fields = rfCalls[2].fields
    /\ rfCarried # DefaultRng(rfCalls[1].args.seed)

TestsRunning == tpc \in {"setup", "call", "teardown"}

(* C8, as claimed: annotation is on while the module's tests run; at the end of
   the module it is paused only if the fixture switched it on, and left on if
   it was already on before the module started. *)
C8_PausedOnlyIfEnabledHere ==
    /\ TestsRunning => annotate
    /\ tpc = "finished" => (annotate <=> annotate0)

(* C8, amended: annotation is on while the module's tests run, and at the end of
   the module it is paused whenever it is on at that point, so it is off
   afterwards for both initial states of the flag, also when it was already on
   before the module started. *)
C8_PausedAtModuleEnd ==
    /\ TestsRunning => annotate
    /\ tpc = "module_teardown" => annotate
    /\ tpc = "finished" => ~annotate

C8_Witness ==
    /\ tpc = "finished"
    /\ annotate0 /\ ~annotate
    /\ cur >= 1

(* C9: whatever the tests and their outcomes, the teardown of handle_taping
   clears the tape after each test: when the next test starts, the tape holds no
   entry recorded during an earlier test or by its fixtures. *)
C9_NoEntryOutlivesItsTest ==
    \A e \in tape :
        e[1] >= 1 => (e[1] = cur /\ tpc \in {"call", "teardown"})

C9_Witness ==
    /\ tpc = "setup" /\ cur = 2
    /\ outcome = "exception"
    /\ {<<1, "f_exact">>, <<1, "body">>, <<2, "f_exact">>, <<2, "body">>} \subseteq recorded
    /\ tape = {}

(* C10: whenever the write phase is reached, from the command line or by a
   direct call, the mesh saved into train_data.h5 and test_data.h5 is the mesh
   V is defined on. *)
C10_SavedMeshIsMeshOfV ==
    /\ (pc \in {"save_test", "done"} \/ (pc = "error" /\ err = "save_mesh_failed"))
          => files.train.mesh = MeshOf(args.V)
    /\ pc = "done" => files.test.mesh = MeshOf(args.V)

====
